---- MODULE Spec2Model ----
(***************************************************************************)
(* update_dns_records.py: the command line entry point, the config loader  *)
(* and the reconciliation loop over projects and desired DNS records,      *)
(* together with the managed DNS service it talks to (zone existence,      *)
(* record-set listing, change transactions with conflict detection).       *)
(***************************************************************************)
EXTENDS Integers, Sequences, FiniteSets, TLC

\* ---------------------------------------------------------------- bounds
\* The longest dns_records list of a config.
MaxRecords == 3

\* ---------------------------------------------------------------- inputs
\* The projects of a config: two distinct project ids, in this order.
ProjectList == <<"p1", "p2">>

ProjectSet == {ProjectList[i] : i \in 1..Len(ProjectList)}

\* Desired record descriptors (YAML mappings).  rNoTtl lacks the 'ttl' key
\* and has the (name, type) of rA; rNoName lacks the 'name' key.
rA == [name |-> "a.x.", type |-> "A", ttl |-> 300, rrdatas |-> "1.1.1.1"]

rB == [name |-> "b.x.", type |-> "A", ttl |-> 300, rrdatas |-> "2.2.2.2"]

rNoTtl == [name |-> "a.x.", type |-> "A", rrdatas |-> "3.3.3.3"]

rNoName == [type |-> "A", ttl |-> 300, rrdatas |-> "4.4.4.4"]

RecordSpecs == {rA, rB, rNoTtl, rNoName}

\* Record sets held by the service (ResourceRecordSet objects).
zA == [name |-> "a.x.", record_type |-> "A", ttl |-> 600, rrdatas |-> "9.9.9.9"]

zCname == [name |-> "b.x.", record_type |-> "CNAME", ttl |-> 300, rrdatas |-> "a.x."]

\* An empty zone, and one that holds a.x./A with another TTL and rrdatas than
\* the desired rA, and b.x. with another type than the desired rB.
ZoneContents == {{}, {zA, zCname}}

RecordSeqs == UNION {[1..n -> RecordSpecs] : n \in 0..MaxRecords}

None == "None"

ZoneValues == {None, "", "z1"}

\* The parsed YAML document: a mapping in which each of the three keys may
\* be absent.
Configs ==
    {[projects |-> ProjectList, dns_records |-> rs, zone |-> z] :
        rs \in RecordSeqs \ {<<>>}, z \in ZoneValues \ {None}}
    \cup {[projects |-> ProjectList, dns_records |-> rs] : rs \in RecordSeqs \ {<<>>}}
    \cup {[projects |-> ProjectList, zone |-> "z1"], [dns_records |-> <<rA>>, zone |-> "z1"]}

VARIABLES
    pc,                \* position in the script
    argc,              \* len(sys.argv)
    projects,          \* main's local: list of project ids
    dns_records,       \* main's local: list of desired record descriptors
    zone,              \* main's local: zone name
    pi,                \* index of the current project in projects
    ri,                \* index of the current record in dns_records
    existing_records,  \* update_dns_records' local: the snapshot
    listedFor,         \* the project existing_records was listed from
    additions,         \* the additions held by the local `changes` object
    zoneExists,        \* service: does the managed zone exist in project p
    zoneRecs,          \* service: record sets of the zone in project p
    zone0,             \* zoneRecs at start of the run
    calls,             \* service calls made so far, in order
    log,               \* lines printed so far, in order
    exit_code

vars == <<pc, argc, projects, dns_records, zone, pi, ri, existing_records,
          listedFor, additions, zoneExists, zoneRecs, zone0, calls, log,
          exit_code>>

config_vars == <<projects, dns_records, zone>>

service_vars == <<zoneExists, zoneRecs, zone0>>

local_vars == <<existing_records, listedFor, additions>>

\* ------------------------------------------------------------- helpers
\* dict.get(key, default)
Get(config, key, default) ==
    IF key \in DOMAIN config THEN config[key] ELSE default

\* load_config_from_yaml's return value for a parsed document
load_config_from_yaml(config) ==
    [projects |-> Get(config, "projects", <<>>),
     dns_records |-> Get(config, "dns_records", <<>>),
     zone |-> Get(config, "zone", None)]

\* Variant of NotZone: `zone is None`, which lets an empty zone name through.
NotZoneNoneOnly(z) == z = None

\* `not zone`
NotZone(z) == z = None \/ z = ""

\* One service call: the operation, the project, the index of the desired
\* record it was made for (0: none), the additions sent, and how it ended.
Call(op, p, idx, adds, result) ==
    [op |-> op, project |-> p, idx |-> idx, additions |-> adds, result |-> result]

\* One printed line: which message, for which project and record index.
Line(text, p, idx) == [text |-> text, project |-> p, idx |-> idx]

project == projects[pi]

record == dns_records[ri]

Init ==
    /\ pc = "main"
    /\ argc \in 1..3
    /\ projects = <<>>
    /\ dns_records = <<>>
    /\ zone = None
    /\ pi = 0
    /\ ri = 0
    /\ existing_records = {}
    /\ listedFor = None
    /\ additions = <<>>
    /\ zoneExists \in [ProjectSet -> BOOLEAN]
    /\ zoneRecs \in [ProjectSet -> ZoneContents]
    /\ \A p \in ProjectSet : ~zoneExists[p] => zoneRecs[p] = {}
    /\ zone0 = zoneRecs
    /\ calls = <<>>
    /\ log = <<>>
    /\ exit_code = 0

\* ---------------------------------------------------------------- main
\* if len(sys.argv) != 2: usage, sys.exit(1)
MainArgs ==
    /\ pc = "main"
    /\ IF argc # 2
       THEN /\ log' = Append(log, Line("Usage", None, 0))
            /\ exit_code' = 1
            /\ pc' = "exit"
       ELSE /\ pc' = "load"
            /\ UNCHANGED <<log, exit_code>>
    /\ UNCHANGED <<argc, config_vars, pi, ri, local_vars, service_vars, calls>>

\* The exception classes the script can meet: a Conflict answer of the
\* service, a missing key of a record descriptor, any other failure of a call.
Exceptions == {"Conflict", "KeyError", "ApiError"}

\* Variant of ProjectCatches: a project-level handler for Conflict alone.
ProjectCatchesConflictOnly(e) == e = "Conflict"

\* except Exception as e  (project level)
ProjectCatches(e) == e \in Exceptions

\* Variant of ConflictCatches: no record-level handler.
ConflictCatchesNone(e) == FALSE

\* Variant of ConflictCatches: a record-level handler for every exception.
ConflictCatchesAll(e) == e \in Exceptions

\* except google.api_core.exceptions.Conflict  (record level)
ConflictCatches(e) == e = "Conflict"

\* except Exception as e  (top level of the script)
MainExcept ==
    /\ log' = Append(log, Line("ConfigError", None, 0))
    /\ pc' = "exit"

\* An exception e leaves the body of the project loop's try block.
ProjectExcept(e) ==
    IF ProjectCatches(e)
    THEN /\ log' = Append(log, Line("ProjectError", project, 0))
         /\ pc' = "for_project"
         /\ pi' = pi + 1
    ELSE /\ MainExcept
         /\ pi' = pi

\* projects, dns_records, zone = load_config_from_yaml(config_file)
LoadConfig ==
    /\ pc = "load"
    /\ \E readable \in BOOLEAN, config \in Configs :
         IF readable
         THEN LET t == load_config_from_yaml(config) IN
              /\ projects' = t.projects
              /\ dns_records' = t.dns_records
              /\ zone' = t.zone
              /\ pc' = "validate"
              /\ UNCHANGED log
         ELSE /\ MainExcept
              /\ UNCHANGED config_vars
    /\ UNCHANGED <<argc, pi, ri, local_vars, service_vars, calls, exit_code>>

\* if not zone: raise ValueError(...)   else   update_dns_records(...)
ValidateZone ==
    /\ pc = "validate"
    /\ IF NotZone(zone)
       THEN /\ MainExcept
            /\ pi' = pi
       ELSE /\ pc' = "for_project"
            /\ pi' = 1
            /\ UNCHANGED log
    /\ UNCHANGED <<argc, config_vars, ri, local_vars, service_vars, calls, exit_code>>

\* -------------------------------------------------- update_dns_records
\* for project in projects: print("Processing project ...")
ForProject ==
    /\ pc = "for_project"
    /\ IF pi <= Len(projects)
       THEN /\ log' = Append(log, Line("Processing", project, 0))
            /\ pc' = "client"
       ELSE /\ pc' = "exit"
            /\ UNCHANGED log
    /\ UNCHANGED <<argc, config_vars, pi, ri, local_vars, service_vars, calls, exit_code>>

\* client = dns.Client(project=project)
NewClient ==
    /\ pc = "client"
    /\ \E ok \in BOOLEAN :
         IF ok
         THEN /\ calls' = Append(calls, Call("client", project, 0, <<>>, "ok"))
              /\ pc' = "exists"
              /\ UNCHANGED <<log, pi>>
         ELSE /\ calls' = Append(calls, Call("client", project, 0, <<>>, "ApiError"))
              /\ ProjectExcept("ApiError")
    /\ UNCHANGED <<argc, config_vars, ri, local_vars, service_vars, exit_code>>

\* Variant of ZoneAbsent: the existence test dropped.
ZoneAbsentNever(p) == FALSE

\* not zone_obj.exists()
ZoneAbsent(p) == ~zoneExists[p]

\* zone_obj = client.zone(zone); if not zone_obj.exists(): print; continue
CheckZone ==
    /\ pc = "exists"
    /\ \E ok \in BOOLEAN :
         IF ~ok
         THEN /\ calls' = Append(calls, Call("exists", project, 0, <<>>, "ApiError"))
              /\ ProjectExcept("ApiError")
         ELSE /\ calls' = Append(calls, Call("exists", project, 0, <<>>, "ok"))
              /\ IF ZoneAbsent(project)
                 THEN /\ log' = Append(log, Line("ZoneMissing", project, 0))
                      /\ pc' = "for_project"
                      /\ pi' = pi + 1
                 ELSE /\ pc' = "list"
                      /\ UNCHANGED <<log, pi>>
    /\ UNCHANGED <<argc, config_vars, ri, local_vars, service_vars, exit_code>>

\* changes = zone_obj.changes()
\* existing_records = list(zone_obj.list_resource_record_sets())
ListRecords ==
    /\ pc = "list"
    /\ additions' = <<>>
    /\ \E ok \in BOOLEAN :
         IF ok
         THEN /\ calls' = Append(calls, Call("list", project, 0, <<>>, "ok"))
              /\ existing_records' = zoneRecs[project]
              /\ listedFor' = project
              /\ ri' = 1
              /\ pc' = "for_record"
              /\ UNCHANGED <<log, pi>>
         ELSE /\ calls' = Append(calls, Call("list", project, 0, <<>>, "ApiError"))
              /\ ProjectExcept("ApiError")
              /\ UNCHANGED <<existing_records, listedFor, ri>>
    /\ UNCHANGED <<argc, config_vars, service_vars, exit_code>>

\* Variant of RecordExists: the TTL compared as well.
RecordExistsTtl(rec, existing) ==
    \E r \in existing :
        /\ r.name = rec.name
        /\ r.record_type = rec.type
        /\ "ttl" \in DOMAIN rec
        /\ r.ttl = rec.ttl

\* any(r.name == record['name'] and r.record_type == record['type']
\*     for r in existing_records)
RecordExists(rec, existing) ==
    \E r \in existing : r.name = rec.name /\ r.record_type = rec.type

\* The same expression raises KeyError when it reaches a lookup of a key the
\* descriptor lacks: record['name'] for the first existing record,
\* record['type'] for the first existing record of that name.
ExistsCheckRaises(rec, existing) ==
    \E r \in existing :
        \/ "name" \notin DOMAIN rec
        \/ ("type" \notin DOMAIN rec /\ r.name = rec.name)

\* Variant of ForRecord: the zone listed again for every record.
ForRecordRelisting ==
    /\ pc = "for_record"
    /\ IF ri > Len(dns_records)
       THEN /\ pc' = "for_project"
            /\ pi' = pi + 1
            /\ UNCHANGED <<log, ri, calls, existing_records>>
       ELSE /\ calls' = Append(calls, Call("list", project, 0, <<>>, "ok"))
            /\ existing_records' = zoneRecs[project]
            /\ IF ExistsCheckRaises(record, zoneRecs[project])
               THEN /\ ProjectExcept("KeyError")
                    /\ ri' = ri
               ELSE IF RecordExists(record, zoneRecs[project])
               THEN /\ log' = Append(log, Line("AlreadyExists", project, ri))
                    /\ ri' = ri + 1
                    /\ UNCHANGED <<pc, pi>>
               ELSE /\ pc' = "create"
                    /\ UNCHANGED <<log, pi, ri>>
    /\ UNCHANGED <<argc, config_vars, listedFor, additions, service_vars, exit_code>>

\* for record in dns_records: record_exists = any(...); if record_exists: print
ForRecord ==
    /\ pc = "for_record"
    /\ IF ri > Len(dns_records)
       THEN /\ pc' = "for_project"
            /\ pi' = pi + 1
            /\ UNCHANGED <<log, ri>>
       ELSE IF ExistsCheckRaises(record, existing_records)
       THEN /\ ProjectExcept("KeyError")
            /\ ri' = ri
       ELSE IF RecordExists(record, existing_records)
       THEN /\ log' = Append(log, Line("AlreadyExists", project, ri))
            /\ ri' = ri + 1
            /\ UNCHANGED <<pc, pi>>
       ELSE /\ pc' = "create"
            /\ UNCHANGED <<log, pi, ri>>
    /\ UNCHANGED <<argc, config_vars, local_vars, service_vars, calls, exit_code>>

\* zone_obj.resource_record_set(name, type, ttl, rrdatas)
resource_record_set(rec) ==
    [name |-> rec.name, record_type |-> rec.type, ttl |-> rec.ttl,
     rrdatas |-> rec.rrdatas]

RecordKeys == {"name", "type", "ttl", "rrdatas"}

Range(s) == {s[i] : i \in 1..Len(s)}

\* The service rejects a change whose additions include a record set whose
\* (name, type) the zone already holds.
Collides(adds, recs) ==
    \E a \in Range(adds), r \in recs :
        a.name = r.name /\ a.record_type = r.record_type

\* What changes.create() can do with these additions on this zone.
CreateOutcomes(adds, recs) ==
    {"ApiError"} \cup (IF Collides(adds, recs) THEN {"Conflict"} ELSE {"ok"})

\* An exception e is raised inside the record-level try block.
CreateExcept(e) ==
    IF ConflictCatches(e)
    THEN /\ log' = Append(log, Line("ConflictSkip", project, ri))
         /\ ri' = ri + 1
         /\ pc' = "for_record"
         /\ pi' = pi
    ELSE /\ ProjectExcept(e)
         /\ ri' = ri

\* new_record = zone_obj.resource_record_set(...)
\* changes.add_record_set(new_record); changes.create(); print("Added ...")
CreateRecord ==
    /\ pc = "create"
    /\ IF ~(RecordKeys \subseteq DOMAIN record)
       THEN /\ CreateExcept("KeyError")
            /\ UNCHANGED <<additions, calls, zoneRecs>>
       ELSE LET adds == Append(additions, resource_record_set(record)) IN
            /\ additions' = adds
            /\ \E outcome \in CreateOutcomes(adds, zoneRecs[project]) :
                 /\ calls' = Append(calls, Call("create", project, ri, adds, outcome))
                 /\ IF outcome = "ok"
                    THEN /\ zoneRecs' = [zoneRecs EXCEPT ![project] = @ \cup Range(adds)]
                         /\ log' = Append(log, Line("Added", project, ri))
                         /\ ri' = ri + 1
                         /\ pc' = "for_record"
                         /\ pi' = pi
                    ELSE /\ CreateExcept(outcome)
                         /\ UNCHANGED zoneRecs
    /\ UNCHANGED <<argc, config_vars, existing_records, listedFor, zoneExists,
                   zone0, exit_code>>

Next ==
    \/ MainArgs
    \/ LoadConfig
    \/ ValidateZone
    \/ ForProject
    \/ NewClient
    \/ CheckZone
    \/ ListRecords
    \/ ForRecord
    \/ CreateRecord

Spec == Init /\ [][Next]_vars

\* ------------------------------------------- the loop as a pure function
\* The zone content at the end of one project's pass over `records`, when the
\* zone exists, the listing returned `existing` and no call fails other than
\* by Conflict: the loop of update_dns_records from record i on, with the
\* additions `adds` accumulated so far and the zone holding `recs`.
RECURSIVE PassFrom(_, _, _, _, _)
PassFrom(records, i, existing, adds, recs) ==
    IF i > Len(records) THEN recs
    ELSE LET rec == records[i] IN
         IF ExistsCheckRaises(rec, existing) THEN recs
         ELSE IF RecordExists(rec, existing)
         THEN PassFrom(records, i + 1, existing, adds, recs)
         ELSE IF ~(RecordKeys \subseteq DOMAIN rec) THEN recs
         ELSE LET a == Append(adds, resource_record_set(rec)) IN
              IF Collides(a, recs)
              THEN PassFrom(records, i + 1, existing, a, recs)
              ELSE PassFrom(records, i + 1, existing, a, recs \cup Range(a))

ProjectPass(records, recs) == PassFrom(records, 1, recs, <<>>, recs)

\* ------------------------------------------------ vocabulary of the claims
\* The desired record rec and the record set r have the same (name, type).
SameKey(rec, r) ==
    /\ {"name", "type"} \subseteq DOMAIN rec
    /\ rec.name = r.name
    /\ rec.type = r.record_type

\* The record sets recs hold the (name, type) of the desired record rec.
Holds(rec, recs) == \E r \in recs : SameKey(rec, r)

CallsOf(p, op) == {c \in DOMAIN calls : calls[c].project = p /\ calls[c].op = op}

CreatesFor(p, i) == {c \in CallsOf(p, "create") : calls[c].idx = i}

LinesOf(p, text) == {l \in DOMAIN log : log[l].project = p /\ log[l].text = text}

HasLine(p, text, i) == \E l \in LinesOf(p, text) : log[l].idx = i

\* update_dns_records has been entered.
Entered == pi >= 1

\* The pass over the k-th project is over.
Finished(k) == Entered /\ pi > k

\* The project-level handler ran for p.
Errored(p) == LinesOf(p, "ProjectError") # {}

\* The listing of p's zone returned.
Listed(p) == \E c \in CallsOf(p, "list") : calls[c].result = "ok"

\* No call of p's pass failed other than by Conflict.
NoApiError(p) == \A c \in DOMAIN calls : calls[c].project = p => calls[c].result # "ApiError"

\* Every descriptor of records has its four keys.
AllKeys(records) == \A i \in 1..Len(records) : RecordKeys \subseteq DOMAIN records[i]

Perms(s) == {[i \in 1..Len(s) |-> s[f[i]]] : f \in Permutations(1..Len(s))}

\* The stepwise loop and the loop as a function agree at the end of a pass.
PassAgrees ==
    \A k \in 1..Len(projects) :
        (Finished(k) /\ Listed(projects[k]) /\ NoApiError(projects[k]))
            => zoneRecs[projects[k]] = ProjectPass(dns_records, zone0[projects[k]])

\* -------------------------------------------------------------------- C1
\* C1: every desired record absent from the project's snapshot gets exactly
\* one change transaction, whose additions are exactly that one record set;
\* a record present in the snapshot gets none.
C1_OneTransactionPerRecord ==
    \A k \in 1..Len(projects) : \A i \in 1..Len(dns_records) :
        LET p == projects[k] IN
        /\ \A c \in CreatesFor(p, i) :
               calls[c].additions = <<resource_record_set(dns_records[i])>>
        /\ (HasLine(p, "Added", i) \/ HasLine(p, "ConflictSkip", i))
               => Cardinality(CreatesFor(p, i)) = 1
        /\ HasLine(p, "AlreadyExists", i) => CreatesFor(p, i) = {}

\* -------------------------------------------------------------------- C2
\* C2: at the end of the pass over a project whose zone exists, when no call
\* failed other than by Conflict, the zone holds a record set for the
\* (name, type) of every entry of dns_records.
C2_EveryRecordCreated ==
    \A k \in 1..Len(projects) :
        LET p == projects[k] IN
        (Finished(k) /\ Listed(p) /\ NoApiError(p) /\ ~Errored(p))
            => \A i \in 1..Len(dns_records) : Holds(dns_records[i], zoneRecs[p])

\* -------------------------------------------------------------------- C9
\* C9: with the zone content and the service's behaviour fixed, every
\* permutation of dns_records ends the project's pass with the same record
\* sets in the zone (stated here for the passes in which nothing fails other
\* than by Conflict and every descriptor has all its keys).
C9_OrderIrrelevant ==
    \A k \in 1..Len(projects) :
        LET p == projects[k] IN
        (Finished(k) /\ Listed(p) /\ NoApiError(p) /\ AllKeys(dns_records))
            => \A perm \in Perms(dns_records) :
                   ProjectPass(perm, zone0[p]) = zoneRecs[p]

\* -------------------------------------------------------------------- C3
\* C3: no change transaction is submitted for a desired record whose
\* (name, type) is in the project's snapshot, whatever its TTL and rrdatas,
\* nor does any transaction carry such a record set; a project whose zone
\* held every desired (name, type) gets no change transaction at all.
C3_NoCreateForExisting ==
    \A k \in 1..Len(projects) :
        LET p == projects[k] IN
        /\ \A c \in CallsOf(p, "create") :
               /\ ~Holds(dns_records[calls[c].idx], zone0[p])
               /\ \A a \in Range(calls[c].additions) : \A r \in zone0[p] :
                      ~(a.name = r.name /\ a.record_type = r.record_type)
        /\ (\A i \in 1..Len(dns_records) : Holds(dns_records[i], zone0[p]))
               => CallsOf(p, "create") = {}

\* A finished run in which a project's zone held a.x./A with TTL 600, the
\* desired rA (TTL 300) was found existing and nothing was submitted.
C3_Witness ==
    /\ pc = "exit"
    /\ Entered
    /\ dns_records = <<rA, rA>>
    /\ zone0[projects[1]] = {zA, zCname}
    /\ HasLine(projects[1], "AlreadyExists", 1)
    /\ HasLine(projects[1], "AlreadyExists", 2)
    /\ CallsOf(projects[1], "create") = {}

\* -------------------------------------------------------------------- C4
\* C4: a Conflict answer to a creation is caught and logged for that record
\* alone: it never puts the project in error, the next entry of dns_records
\* is examined (found existing, or submitted), in a pass without other
\* failure every entry is, and the later projects are processed.
C4_ConflictSkipsOnlyThatRecord ==
    \A k \in 1..Len(projects) :
        LET p == projects[k]
            n == Len(dns_records)
            Examined(i) == IF Holds(dns_records[i], zone0[p])
                           THEN HasLine(p, "AlreadyExists", i)
                           ELSE CreatesFor(p, i) # {}
        IN
        \A c \in CallsOf(p, "create") : calls[c].result = "Conflict" =>
            /\ HasLine(p, "ConflictSkip", calls[c].idx)
            /\ Errored(p) => (~NoApiError(p) \/ ~AllKeys(dns_records))
            /\ (Finished(k) /\ calls[c].idx < n) =>
                   IF RecordKeys \subseteq DOMAIN dns_records[calls[c].idx + 1]
                   THEN Examined(calls[c].idx + 1)
                   ELSE HasLine(p, "AlreadyExists", calls[c].idx + 1) \/ Errored(p)
            /\ (Finished(k) /\ NoApiError(p) /\ AllKeys(dns_records)) =>
                   \A i \in 1..n : Examined(i)
            /\ pc = "exit" =>
                   \A k2 \in (k + 1)..Len(projects) : CallsOf(projects[k2], "client") # {}

\* A finished run in which the second entry met a Conflict and the third,
\* absent from the snapshot, was then submitted, and the next project begun.
C4_Witness ==
    /\ pc = "exit"
    /\ Len(dns_records) = 3
    /\ \E c \in CreatesFor(projects[1], 2) : calls[c].result = "Conflict"
    /\ ~Holds(dns_records[3], zone0[projects[1]])
    /\ CreatesFor(projects[1], 3) # {}
    /\ CallsOf(projects[2], "client") # {}

\* -------------------------------------------------------------------- C5
\* C5: a project in which the zone does not exist gets no listing call and
\* no creation call; once the lookup has answered, the absence is logged,
\* the project is not in error and its pass is over; the later projects are
\* processed.
C5_AbsentZoneSkipped ==
    \A k \in 1..Len(projects) :
        LET p == projects[k] IN
        ~zoneExists[p] =>
            /\ CallsOf(p, "list") = {}
            /\ CallsOf(p, "create") = {}
            /\ (\E c \in CallsOf(p, "exists") : calls[c].result = "ok") =>
                   /\ HasLine(p, "ZoneMissing", 0)
                   /\ ~Errored(p)
                   /\ Finished(k)
            /\ (pc = "exit" /\ Entered) =>
                   \A k2 \in (k + 1)..Len(projects) : CallsOf(projects[k2], "client") # {}

\* A finished run whose first project had no zone and whose second project
\* was listed.
C5_Witness ==
    /\ pc = "exit"
    /\ Len(projects) >= 2
    /\ ~zoneExists[projects[1]]
    /\ HasLine(projects[1], "ZoneMissing", 0)
    /\ Listed(projects[2])

\* -------------------------------------------------------------------- C6
\* C6: no exception leaves update_dns_records: a project in error is over
\* and the loop goes on, so that at the end every project was begun (its
\* client constructed, and its zone looked up when the client was built) and
\* the function has returned from the end of the project list.
C6_ProjectErrorIsolated ==
    Entered =>
        /\ \A l \in DOMAIN log : log[l].text # "ConfigError"
        /\ \A k \in 1..Len(projects) : Errored(projects[k]) => Finished(k)
        /\ pc = "exit" =>
               /\ pi = Len(projects) + 1
               /\ \A k \in 1..Len(projects) :
                      LET p == projects[k] IN
                      /\ HasLine(p, "Processing", 0)
                      /\ CallsOf(p, "client") # {}
                      /\ (\E c \in CallsOf(p, "client") : calls[c].result = "ok")
                             => CallsOf(p, "exists") # {}

\* A finished run whose first project failed in a creation and whose second
\* project's zone was looked up.
C6_Witness ==
    /\ pc = "exit"
    /\ Len(projects) >= 2
    /\ Errored(projects[1])
    /\ \E c \in CallsOf(projects[1], "create") : calls[c].result = "ApiError"
    /\ CallsOf(projects[2], "exists") # {}

\* -------------------------------------------------------------------- C7
\* C7: a creation that fails other than by Conflict (the service call, or a
\* descriptor lacking a key) ends the project's pass: the project is in
\* error, no later call is made for it, no later entry of dns_records is
\* logged or submitted, and the later projects are processed.
C7_OtherErrorAbortsProject ==
    \A k \in 1..Len(projects) :
        LET p == projects[k]
            Untouched(j) ==
                /\ CreatesFor(p, j) = {}
                /\ ~HasLine(p, "AlreadyExists", j)
                /\ ~HasLine(p, "Added", j)
                /\ ~HasLine(p, "ConflictSkip", j)
        IN
        /\ \A c \in CallsOf(p, "create") : calls[c].result = "ApiError" =>
               /\ Errored(p)
               /\ Finished(k)
               /\ \A c2 \in DOMAIN calls : c2 > c => calls[c2].project # p
               /\ \A j \in (calls[c].idx + 1)..Len(dns_records) : Untouched(j)
               /\ pc = "exit" =>
                      \A k2 \in (k + 1)..Len(projects) :
                          CallsOf(projects[k2], "client") # {}
        /\ \A i \in 1..Len(dns_records) :
               (~(RecordKeys \subseteq DOMAIN dns_records[i])
                    /\ ~Holds(dns_records[i], zone0[p]))
               => /\ \A j \in i..Len(dns_records) : Untouched(j)
                  /\ (/\ Finished(k)
                      /\ Listed(p)
                      /\ \A j \in 1..(i - 1) : ~Untouched(j)) => Errored(p)

\* A finished run in which the creation of the first of several entries
\* failed in the service and the next project was begun.
C7_Witness ==
    /\ pc = "exit"
    /\ Len(dns_records) >= 2
    /\ Len(projects) >= 2
    /\ \E c \in CreatesFor(projects[1], 1) : calls[c].result = "ApiError"
    /\ Errored(projects[1])
    /\ CallsOf(projects[2], "client") # {}

\* -------------------------------------------------------------------- C8
\* C8: a service call is made only with one argument given, the config
\* loaded and a non-empty zone; a run that ends without entering
\* update_dns_records made no call and printed one line, the usage or the
\* error.
C8_NoCallBeforeValidation ==
    /\ calls # <<>> => (argc = 2 /\ zone # None /\ zone # "" /\ Entered)
    /\ (zone = None \/ zone = "") => ~Entered
    /\ (pc = "exit" /\ ~Entered) =>
           /\ calls = <<>>
           /\ Len(log) = 1
           /\ log[1].text \in {"Usage", "ConfigError"}

\* A finished run whose config had projects and records but an empty zone.
C8_Witness ==
    /\ pc = "exit"
    /\ zone = ""
    /\ Len(projects) >= 1
    /\ Len(dns_records) >= 1
    /\ calls = <<>>
    /\ log = <<Line("ConfigError", None, 0)>>

\* ------------------------------------------------------------------- C10
\* C10: a project gets at most one listing call, exactly one once its
\* existing zone's pass is in the record loop or over, placed after its zone
\* lookup and before its creations; in the record loop the snapshot is the
\* one listed for the current project and still what the listing returned.
C10_OneListingPerProject ==
    /\ \A k \in 1..Len(projects) :
           LET p == projects[k] IN
           /\ Cardinality(CallsOf(p, "list")) <= 1
           /\ (/\ zoneExists[p]
               /\ \E c \in CallsOf(p, "exists") : calls[c].result = "ok"
               /\ (Finished(k) \/ (pi = k /\ pc \in {"for_record", "create"})))
                  => Cardinality(CallsOf(p, "list")) = 1
           /\ \A l \in CallsOf(p, "list") :
                  /\ \E e \in CallsOf(p, "exists") : e < l /\ calls[e].result = "ok"
                  /\ \A c \in CallsOf(p, "create") : l < c
    /\ pc \in {"for_record", "create"} =>
           /\ listedFor = project
           /\ existing_records = zone0[project]

\* In the record loop after a creation: the zone has changed, the snapshot
\* has not, and the project was listed once.
C10_Witness ==
    /\ pc = "for_record"
    /\ ri = 2
    /\ zoneRecs[project] # zone0[project]
    /\ existing_records = zone0[project]
    /\ Cardinality(CallsOf(project, "list")) = 1
====
